---- MODULE Spec2Model ----
(***************************************************************************)
(* Models of four programs of the repository, each with its own variables *)
(* and its own specification; a specification keeps the variables of the  *)
(* programs it does not run at Idle.                                       *)
(*   Spec, SpecTwo  test/e2e/common/http_retry.py: post_with_retry, one    *)
(*                  call and two calls on two threads                      *)
(*   SpecLogging    python/storage/storage/storage_logging.py:             *)
(*                  configure_logging                                      *)
(*   SpecPoll       test/e2e/storagespec/test_s3_tls_storagespec.py:       *)
(*                  check_model_status                                     *)
(*   SpecKeys       the same file: managed_storage_config_key and          *)
(*                  managed_ca_bundle_key in the with statements of a test *)
(*                                                                         *)
(* One call of post_with_retry is a small sequential state machine:        *)
(*   start   -> the body check of lines 27-28, then Retry(...) 30-36       *)
(*   session -> "with requests.Session() as session", the two mounts       *)
(*   prepare -> session.post prepares the request (URL validation)         *)
(*   send    -> about to hand a request attempt to the transport           *)
(*   inflight-> the attempt is with the transport (HTTPAdapter / urlopen)  *)
(*   sleep   -> Retry.sleep between two attempts                           *)
(*   done    -> the call returned a response or raised                     *)
(* The transport's answer to every attempt is chosen nondeterministically. *)
(* Durations are whole seconds.                                            *)
(***************************************************************************)
EXTENDS Integers, Sequences, FiniteSets, TLC

\* ---------------------------------------------------------------- bounds
MaxRetries == 2
\* redirects a session follows before TooManyRedirects (requests: 30)
MaxRedirects == 1

\* ------------------------------------------------------------- constants
DEFAULT_RETRY_STATUS_CODES == {404, 429, 502, 503, 504}
\* urllib3 Retry.DEFAULT_BACKOFF_MAX, used because Retry(...) passes no backoff_max
DEFAULT_BACKOFF_MAX == 120
\* urllib3 Retry.RETRY_AFTER_STATUS_CODES, used because respect_retry_after_header
\* keeps its default (True)
RETRY_AFTER_STATUS_CODES == {413, 429, 503}
\* requests: the statuses Response.is_redirect accepts
REDIRECT_STATI == {301, 302, 303, 307, 308}
allowed_methods == {"POST"}

\* ---------------------------------------------------------- input domains
None == "None"
NoHeader == -1
BodyValues == {None, "set"}
UrlValues == {"http://svc/v1", "svc/v1"}
BackoffFactors == {0, 1, 100}
ForcelistValues == {DEFAULT_RETRY_STATUS_CODES, {404}}
Statuses == {200, 400, 404, 413, 503, 307}
RetryAfterValues == {NoHeader, 0, 3}
NetworkErrors == {"NewConnectionError", "ReadTimeoutError"}

\* A transport outcome: a completed HTTP exchange or a connection-level failure.
\* A 307 always carries a Location header here; Retry-After is sent with 413/503.
Response(s, ra) ==
    [kind |-> "response", status |-> s, retry_after |-> ra,
     location |-> (s = 307), error |-> None]
NetworkFailure(e) ==
    [kind |-> "error", status |-> 0, retry_after |-> NoHeader,
     location |-> FALSE, error |-> e]
NoOutcome ==
    [kind |-> "none", status |-> 0, retry_after |-> NoHeader,
     location |-> FALSE, error |-> None]
Outcomes ==
    {Response(s, NoHeader) : s \in Statuses}
      \cup {Response(s, ra) : s \in {413, 503}, ra \in RetryAfterValues}
      \cup {NetworkFailure(e) : e \in NetworkErrors}

\* ------------------------------------------------------------------ state
VARIABLES
    url, json_data, data, total_retries, backoff_factor, retry_status_codes,
    pc,          \* position of the call
    retry,       \* the Retry object of the current urlopen
    session,     \* "none" | "open" | "closed"
    started,     \* requests handed to the transport by this call
    attempts,    \* requests the transport has answered (response or failure)
    redirects,   \* redirects followed by the session
    last,        \* the outcome of the latest attempt
    prior,       \* the kinds of outcome the attempts before the latest one had
    last_wait,   \* seconds waited before the latest retry, 0 when none was
    sleeps,      \* calls of time.sleep made by this call
    result,      \* what the call handed to its caller
    \* two calls of post_with_retry on two threads: the variables above are the
    \* frame of the call whose thread is running
    running,     \* the thread that is running: 1 or 2 (0: a single call)
    peer,        \* the frame of the call whose thread is suspended
    \* storage_logging.py: configure_logging
    logging,     \* the process-wide logging state: logger name -> its settings
    log_files,   \* what the file at a path holds when it is read
    log_config,  \* the argument of the latest call of configure_logging
    log_previous,\* the argument of the call before the latest
    log_calls,   \* calls of configure_logging made by the process
    log_action,  \* the configuration action the latest call selected
    log_raised,  \* whether the latest call raised
    \* test_s3_tls_storagespec.py: check_model_status
    timeout_seconds, polling_interval, expected_status, expected_failure_message,
    poll_pc,     \* position of the call
    poll_limit,  \* the length of the range the for loop runs over
    polls,       \* calls of kserve_client.get made
    poll_slept,  \* seconds spent in time.sleep
    observed,    \* the modelStatus each poll read, in order
    poll_result, \* how the call ended
    \* test_s3_tls_storagespec.py: the with statements of one phase of a test
    test_name,   \* "global" | "custom" | "serving"
    test_phase,  \* "pass" | "fail"
    key_pc,      \* position in the with statements
    secret_data, \* data of the secret storage-config
    configmap_data, \* data of the configmap odh-trusted-ca-bundle
    in_flight,   \* the exception on its way out of the with statements, if any
    isvc,        \* the InferenceService of the phase: "absent" | "present" | "terminating"
    \* test_s3_tls_storagespec.py: odh_trusted_ca_bundle_configmap on two test workers
    cm,  \* the configmap odh-trusted-ca-bundle in the shared namespace
    w_pc,  \* position of each worker
    w_status,  \* the status of the latest API answer to each worker
    w_raised, \* the status of the ApiException that left each worker's fixture or test, if any
    \* test_llm_auth.py: the three LLM auth tests
    auth_test,  \* the test that runs
    environ,  \* os.environ, the two SKIP_ variables
    cluster,  \* the ServiceAccount, Role, RoleBinding and LLMInferenceService in the namespace
    auth_pc,  \* position in the test
    api_calls,  \* the calls made so far, each with how it ended
    test_failed,  \* the local test_failed
    token,  \* what create_service_account_with_get_access returned
    auth_in_flight,  \* the exception that is propagating
    auth_outcome  \* how the test ended

inputs == <<url, json_data, data, total_retries, backoff_factor, retry_status_codes>>
call_vars == <<url, json_data, data, total_retries, backoff_factor,
               retry_status_codes, pc, retry, session, started, attempts,
               redirects, last, prior, last_wait, sleeps, result>>
thread_vars == <<running, peer>>
\* everything that is not a local of the running call of post_with_retry
logging_vars == <<logging, log_files, log_config, log_previous, log_calls,
                  log_action, log_raised>>
poll_vars == <<timeout_seconds, polling_interval, expected_status,
               expected_failure_message, poll_pc, poll_limit, polls, poll_slept,
               observed, poll_result>>
key_vars == <<test_name, test_phase, key_pc, secret_data, configmap_data, in_flight,
              isvc>>
workers_vars == <<cm, w_pc, w_status, w_raised>>
auth_vars == <<auth_test, environ, cluster, auth_pc, api_calls, test_failed, token, auth_in_flight, auth_outcome>>
outside_call == <<thread_vars, logging_vars, poll_vars, key_vars, workers_vars, auth_vars>>
outside_threads == <<logging_vars, poll_vars, key_vars, workers_vars, auth_vars>>
outside_logging == <<call_vars, thread_vars, poll_vars, key_vars, workers_vars, auth_vars>>
outside_poll == <<call_vars, thread_vars, logging_vars, key_vars, workers_vars, auth_vars>>
outside_keys == <<call_vars, thread_vars, logging_vars, poll_vars, workers_vars, auth_vars>>
outside_workers == <<call_vars, thread_vars, logging_vars, poll_vars, key_vars, auth_vars>>
outside_auth == <<call_vars, thread_vars, logging_vars, poll_vars, key_vars, workers_vars>>
vars == <<call_vars, thread_vars, logging_vars, poll_vars, key_vars, workers_vars, auth_vars>>

\* what two calls that run concurrently are given and answered
TwoRetries == {0, 1}
TwoOutcomes ==
    {Response(200, NoHeader), Response(503, NoHeader), Response(307, NoHeader),
     NetworkFailure("NewConnectionError")}
\* the answers the transport may give to an attempt
Answers == IF running = 0 THEN Outcomes ELSE TwoOutcomes

\* ------------------------------------------------------------ helpers
RECURSIVE Pow2(_)
Pow2(n) == IF n <= 0 THEN 1 ELSE 2 * Pow2(n - 1)

Min(a, b) == IF a <= b THEN a ELSE b
Max(a, b) == IF a >= b THEN a ELSE b

NoResult ==
    [kind |-> "none", status |-> 0, exc |-> None, reason |-> None,
     raw_retries |-> <<>>]

\* mutant: the response handed back carries no Retry object
Returned_without_retries(resp) ==
    [kind |-> "response", status |-> resp.status, exc |-> None, reason |-> None,
     raw_retries |-> <<>>]

\* line 40: the requests.Response of session.post is returned as it is; its raw
\* urllib3 response carries the Retry object of the request that produced it
\* (response.raw.retries), whose history has one entry per retried attempt
Returned(resp) ==
    [kind |-> "response", status |-> resp.status, exc |-> None, reason |-> None,
     raw_retries |-> retry.history]
Raised(e, why) ==
    [kind |-> "raise", status |-> 0, exc |-> e, reason |-> why,
     raw_retries |-> <<>>]

\* What the transport spy notes of an outcome: a response whose status is in
\* retry_status_codes ("forced"), any other response ("unforced"), a network failure
\* ("error"), and whether a response asked for a Retry-After delay.
Kinds(out) ==
    (IF out.kind = "error" THEN {"error"}
     ELSE IF out.kind = "response"
          THEN IF out.status \in retry_status_codes THEN {"forced"} ELSE {"unforced"}
          ELSE {})
      \cup (IF out.retry_after > 0 THEN {"retry_after"} ELSE {})

\* ------------------------------------------------- urllib3.util.retry.Retry
\* mutant: raise_on_status left at its default
NewRetry_raise_on_status(total, factor, forcelist) ==
    [total |-> total, backoff_factor |-> factor, status_forcelist |-> forcelist,
     raise_on_status |-> TRUE, history |-> <<>>]

\* Retry(total=..., backoff_factor=..., status_forcelist=..., allowed_methods=["POST"],
\*       raise_on_status=False)
NewRetry(total, factor, forcelist) ==
    [total |-> total, backoff_factor |-> factor, status_forcelist |-> forcelist,
     raise_on_status |-> FALSE, history |-> <<>>]

\* mutant: allowed_methods left at its default, which has no POST
is_method_retryable_default_methods(method) == method \in {"GET", "PUT", "DELETE"}

is_method_retryable(method) == method \in allowed_methods

\* mutant: every error status is retried, whatever the forcelist
is_retry_any_error_status(r, method, status, has_retry_after) ==
    /\ method \in allowed_methods
    /\ \/ status >= 400
       \/ /\ r.total # 0
          /\ has_retry_after
          /\ status \in RETRY_AFTER_STATUS_CODES

\* Retry.is_retry: a forced status, or a Retry-After on 413/429/503 while total is truthy
is_retry(r, method, status, has_retry_after) ==
    /\ is_method_retryable(method)
    /\ \/ status \in r.status_forcelist
       \/ /\ r.total # 0
          /\ has_retry_after
          /\ status \in RETRY_AFTER_STATUS_CODES

\* mutant: the failure is not recorded in the history
increment_without_history(r, out) == [r EXCEPT !.total = @ - 1]

\* Retry.increment: one fewer in total, and a RequestHistory entry appended. Of the
\* entry only redirect_location is ever read back (by get_backoff_time), and it is None
\* for every failure urlopen(redirect=False) retries, so the entry is that field.
increment(r, out) ==
    [r EXCEPT !.total = @ - 1,
              !.history = Append(@, None)]

\* mutants: the exhaustion test off by one, either way
is_exhausted_one_late(r) == r.total < -1
is_exhausted_one_early(r) == r.total <= 0

is_exhausted(r) == r.total < 0

\* mutant: no immediate first retry
get_backoff_time_from_first(r) ==
    Max(0, Min(DEFAULT_BACKOFF_MAX, r.backoff_factor * Pow2(Len(r.history) - 1)))

\* Retry.get_backoff_time
get_backoff_time(r) ==
    LET consecutive_errors_len ==
            Cardinality({i \in 1..Len(r.history) :
                           \A j \in i..Len(r.history) : r.history[j] = None})
    IN  IF consecutive_errors_len <= 1
        THEN 0
        ELSE Max(0, Min(DEFAULT_BACKOFF_MAX,
                        r.backoff_factor * Pow2(consecutive_errors_len - 1)))

\* Retry.sleep(response): Retry-After when the response gives a non-zero one, else backoff
sleep_time(r, out) ==
    IF out.kind = "response" /\ out.retry_after > 0
    THEN out.retry_after
    ELSE get_backoff_time(r)

\* ------------------------------------------------------------------ Init
InitCall ==
    /\ url \in UrlValues
    /\ json_data \in BodyValues
    /\ data \in BodyValues
    /\ total_retries \in 0..MaxRetries
    /\ backoff_factor \in BackoffFactors
    /\ retry_status_codes \in ForcelistValues
    /\ pc = "start"
    /\ retry = NewRetry(0, 0, {})
    /\ session = "none"
    /\ started = 0
    /\ attempts = 0
    /\ redirects = 0
    /\ last = NoOutcome
    /\ prior = {}
    /\ last_wait = 0
    /\ sleeps = 0
    /\ result = NoResult

\* a single call on a single thread
OneThread == running = 0 /\ peer = None

\* the state of a program of the repository that a specification does not run
Idle == "idle"
CallIdle ==
    /\ url = Idle /\ json_data = Idle /\ data = Idle /\ total_retries = Idle
    /\ backoff_factor = Idle /\ retry_status_codes = Idle /\ pc = Idle
    /\ retry = Idle /\ session = Idle /\ started = Idle /\ attempts = Idle
    /\ redirects = Idle /\ last = Idle /\ prior = Idle /\ last_wait = Idle
    /\ sleeps = Idle /\ result = Idle
ThreadsIdle == running = Idle /\ peer = Idle
LoggingIdle ==
    /\ logging = Idle /\ log_files = Idle /\ log_config = Idle
    /\ log_previous = Idle
    /\ log_calls = Idle /\ log_action = Idle /\ log_raised = Idle
PollIdle ==
    /\ timeout_seconds = Idle /\ polling_interval = Idle /\ expected_status = Idle
    /\ expected_failure_message = Idle /\ poll_pc = Idle /\ poll_limit = Idle
    /\ polls = Idle /\ poll_slept = Idle /\ observed = Idle /\ poll_result = Idle
KeysIdle ==
    /\ test_name = Idle /\ test_phase = Idle /\ key_pc = Idle
    /\ secret_data = Idle /\ configmap_data = Idle /\ in_flight = Idle
    /\ isvc = Idle

WorkersIdle ==
    /\ cm = Idle
    /\ w_pc = Idle
    /\ w_status = Idle
    /\ w_raised = Idle

AuthIdle ==
    /\ auth_test = Idle
    /\ environ = Idle
    /\ cluster = Idle
    /\ auth_pc = Idle
    /\ api_calls = Idle
    /\ test_failed = Idle
    /\ token = Idle
    /\ auth_in_flight = Idle
    /\ auth_outcome = Idle

Init == InitCall /\ OneThread /\ LoggingIdle /\ PollIdle /\ KeysIdle /\ WorkersIdle /\ AuthIdle

\* --------------------------------------------------------------- actions
\* mutant: the check fires only when data is missing
both_bodies_given_wrong_test(j, d) == j # None /\ d = None

\* line 27: json_data is not None and data is not None
both_bodies_given(j, d) == j # None /\ d # None

\* lines 27-28: both bodies given -> ValueError before anything else
RejectBodies ==
    /\ pc = "start"
    /\ both_bodies_given(json_data, data)
    /\ pc' = "done"
    /\ result' = Raised("ValueError", None)
    /\ UNCHANGED <<inputs, retry, session, started, attempts, redirects, last,
                   prior, last_wait, sleeps>>
    /\ UNCHANGED outside_call

\* lines 30-36: the Retry policy object
BuildRetry ==
    /\ pc = "start"
    /\ ~both_bodies_given(json_data, data)
    /\ retry' = NewRetry(total_retries, backoff_factor, retry_status_codes)
    /\ pc' = "session"
    /\ UNCHANGED <<inputs, session, started, attempts, redirects, last,
                   prior, last_wait, sleeps, result>>
    /\ UNCHANGED outside_call

\* lines 37-39: the session is entered and the adapters mounted
OpenSession ==
    /\ pc = "session"
    /\ session' = "open"
    /\ pc' = "prepare"
    /\ UNCHANGED <<inputs, retry, started, attempts, redirects, last,
                   prior, last_wait, sleeps, result>>
    /\ UNCHANGED outside_call

\* mutant: the URL is handed to the transport unchecked
UrlHasScheme_unchecked(u) == TRUE

UrlHasScheme(u) == u = "http://svc/v1"

\* mutant: the session is closed after a return only, not by a with block
with_exit_on_return_only(s, outcome) == IF outcome = "return" THEN "closed" ELSE s

\* line 37: leaving the with block closes the session, on return and on exception
with_exit(s, outcome) == "closed"

\* lines 40-47: session.post prepares the request; a URL without a scheme raises
\* MissingSchema out of the with block, which closes the session
PrepareRequest ==
    /\ pc = "prepare"
    /\ IF UrlHasScheme(url)
       THEN /\ pc' = "send"
            /\ UNCHANGED <<session, result>>
       ELSE /\ pc' = "done"
            /\ session' = with_exit(session, "raise")
            /\ result' = Raised("MissingSchema", None)
    /\ UNCHANGED <<inputs, retry, started, attempts, redirects, last,
                   prior, last_wait, sleeps>>
    /\ UNCHANGED outside_call

\* requests Response.is_redirect
is_redirect(resp) ==
    resp.kind = "response" /\ resp.location /\ resp.status \in REDIRECT_STATI

\* what Session.send does with the response the adapter hands back: follow a
\* redirect with a fresh retry budget, give up past the redirect limit, or return
FollowOrReturn(resp) ==
    IF is_redirect(resp)
    THEN IF redirects >= MaxRedirects
         THEN /\ pc' = "done"
              /\ session' = with_exit(session, "raise")
              /\ result' = Raised("TooManyRedirects", None)
              /\ UNCHANGED <<retry, redirects>>
         ELSE /\ pc' = "send"
              /\ redirects' = redirects + 1
              /\ retry' = NewRetry(total_retries, backoff_factor, retry_status_codes)
              /\ UNCHANGED <<session, result>>
    ELSE /\ pc' = "done"
         /\ session' = with_exit(session, "return")
         /\ result' = Returned(resp)
         /\ UNCHANGED <<retry, redirects>>

\* mutant: the next attempt does not wait for the backoff to end
may_send_during_backoff(p) == p \in {"send", "sleep"}

\* session.post blocks: a request goes out only when the call is at the send step,
\* that is after the previous attempt was answered and Retry.sleep has returned
may_send(p) == p = "send"

\* the request of one attempt is handed to the transport
SendRequest ==
    /\ may_send(pc)
    /\ started' = started + 1
    /\ pc' = "inflight"
    /\ UNCHANGED <<inputs, retry, session, attempts, redirects, last,
                   prior, last_wait, sleeps, result>>
    /\ UNCHANGED outside_call

\* one attempt answered by a connection-level failure
AttemptFails ==
    /\ pc = "inflight"
    /\ \E out \in {o \in Answers : o.kind = "error"} :
         /\ attempts' = attempts + 1
         /\ last' = out
         /\ prior' = prior \cup Kinds(last)
         /\ IF is_exhausted(increment(retry, out))
            THEN \* MaxRetryError -> requests.ConnectionError
                 /\ pc' = "done"
                 /\ session' = with_exit(session, "raise")
                 /\ result' = Raised("ConnectionError", out.error)
                 /\ UNCHANGED retry
            ELSE /\ retry' = increment(retry, out)
                 /\ pc' = "sleep"
                 /\ UNCHANGED <<session, result>>
    /\ UNCHANGED <<inputs, started, redirects, last_wait, sleeps>>
    /\ UNCHANGED outside_call

\* one attempt answered by a completed HTTP exchange
AttemptResponds ==
    /\ pc = "inflight"
    /\ \E out \in {o \in Answers : o.kind = "response"} :
         /\ attempts' = attempts + 1
         /\ last' = out
         /\ prior' = prior \cup Kinds(last)
         /\ IF is_retry(retry, "POST", out.status, out.retry_after # NoHeader)
            THEN IF is_exhausted(increment(retry, out))
                 THEN \* MaxRetryError: raised on to the caller (as RetryError) only
                      \* under raise_on_status, else the response is handed back
                      IF retry.raise_on_status
                      THEN /\ pc' = "done"
                           /\ session' = with_exit(session, "raise")
                           /\ result' = Raised("RetryError", None)
                           /\ UNCHANGED <<retry, redirects>>
                      ELSE FollowOrReturn(out)
                 ELSE /\ retry' = increment(retry, out)
                      /\ pc' = "sleep"
                      /\ UNCHANGED <<session, result, redirects>>
            ELSE FollowOrReturn(out)
    /\ UNCHANGED <<inputs, started, last_wait, sleeps>>
    /\ UNCHANGED outside_call

\* Retry.sleep between two attempts; last is the failure being retried, and
\* time.sleep is called only for a positive delay
Sleep ==
    /\ pc = "sleep"
    /\ last_wait' = sleep_time(retry, last)
    /\ sleeps' = IF sleep_time(retry, last) > 0 THEN sleeps + 1 ELSE sleeps
    /\ pc' = "send"
    /\ UNCHANGED <<inputs, retry, session, started, attempts, redirects, last,
                   prior, result>>
    /\ UNCHANGED outside_call

Next ==
    \/ RejectBodies
    \/ BuildRetry
    \/ OpenSession
    \/ PrepareRequest
    \/ SendRequest
    \/ AttemptFails
    \/ AttemptResponds
    \/ Sleep

Spec == Init /\ [][Next]_vars

\* ------------------------------------------- two calls on two threads
\* the frame (arguments and locals) of the running call
Frame ==
    [url |-> url, json_data |-> json_data, data |-> data,
     total_retries |-> total_retries, backoff_factor |-> backoff_factor,
     retry_status_codes |-> retry_status_codes, pc |-> pc, retry |-> retry,
     session |-> session, started |-> started, attempts |-> attempts,
     redirects |-> redirects, last |-> last, prior |-> prior,
     last_wait |-> last_wait, sleeps |-> sleeps, result |-> result]

\* lines 12-23: the frame of a call that has not taken its first step
NewFrame(u, j, d, t, b, f) ==
    [url |-> u, json_data |-> j, data |-> d, total_retries |-> t,
     backoff_factor |-> b, retry_status_codes |-> f, pc |-> "start",
     retry |-> NewRetry(0, 0, {}), session |-> "none", started |-> 0,
     attempts |-> 0, redirects |-> 0, last |-> NoOutcome, prior |-> {},
     last_wait |-> 0, sleeps |-> 0, result |-> NoResult]

\* mutant: one Retry and one Session kept at module level for all calls
resume_module_level(saved, current) == current

\* lines 30 and 37: retry_strategy and session are locals made by each call, so a
\* thread that is resumed finds the objects of its own frame
resume(saved, current) == saved

\* the scheduler suspends the running thread and resumes the other one
Switch ==
    /\ running \in {1, 2}
    /\ running' = 3 - running
    /\ peer' = Frame
    /\ url' = peer.url
    /\ json_data' = peer.json_data
    /\ data' = peer.data
    /\ total_retries' = peer.total_retries
    /\ backoff_factor' = peer.backoff_factor
    /\ retry_status_codes' = peer.retry_status_codes
    /\ pc' = peer.pc
    /\ retry' = resume(peer.retry, retry)
    /\ session' = resume(peer.session, session)
    /\ started' = peer.started
    /\ attempts' = peer.attempts
    /\ redirects' = peer.redirects
    /\ last' = peer.last
    /\ prior' = peer.prior
    /\ last_wait' = peer.last_wait
    /\ sleeps' = peer.sleeps
    /\ result' = peer.result
    /\ UNCHANGED outside_threads

\* thread 1 is about to make a call, thread 2 another one
InitTwo ==
    /\ InitCall
    /\ total_retries \in TwoRetries /\ backoff_factor = 1
    /\ running = 1
    /\ peer \in {NewFrame(url, None, "set", t, 1, {404}) : t \in TwoRetries}
    /\ LoggingIdle /\ PollIdle /\ KeysIdle /\ WorkersIdle /\ AuthIdle

NextTwo == Next \/ Switch

SpecTwo == InitTwo /\ [][NextTwo]_vars

\* ===================================================== storage_logging.py
\* configure_logging and the part of logging.config it drives. The logging state
\* is, per logger, its level, the names of its handlers in order, propagate and
\* disabled. A configuration names loggers and gives each a level, handlers and
\* propagate; "disable_existing_loggers" is what it says of the loggers it does
\* not name.
MaxCalls == 2

LoggerNames == {"root", "kserve", "kserve.trace", "storage.initializer"}
\* the existing loggers whose name starts with name + "."
ChildrenOf(name) == IF name = "kserve" THEN {"kserve.trace"} ELSE {}

LoggerSettings(level, handlers, propagate, disabled) ==
    [level |-> level, handlers |-> handlers, propagate |-> propagate,
     disabled |-> disabled]

\* lines 31-70
KSERVE_LOG_CONFIG ==
    [disable_existing_loggers |-> FALSE,
     loggers |-> [n \in {"kserve", "kserve.trace"} |->
                    [handlers |-> IF n = "kserve" THEN <<"kserve">>
                                  ELSE <<"kserve_trace">>,
                     level |-> "DEBUG", propagate |-> FALSE]]]

\* a dict of the caller: it leaves disable_existing_loggers at its default (True)
UserConfig ==
    [disable_existing_loggers |-> TRUE,
     loggers |-> [n \in {"root", "kserve"} |->
                    [handlers |-> <<"console">>, level |-> "INFO",
                     propagate |-> TRUE]]]

\* a configuration as the fileConfig format holds it: [loggers] always has root
IniConfig ==
    [disable_existing_loggers |-> TRUE,
     loggers |-> [n \in {"root", "storage.initializer"} |->
                    [handlers |-> <<"file">>, level |-> "WARNING",
                     propagate |-> FALSE]]]

NoConfig == [disable_existing_loggers |-> FALSE, loggers |-> <<>>]

\* paths, as the pieces of their text
Json == <<".", "json">>
Yaml == <<".", "yaml">>
Yml == <<".", "yml">>
Paths ==
    {<<"conf">> \o Json, <<"conf">> \o Yaml, <<"conf">> \o Yml,
     <<"conf", ".", "ini">>, <<"conf">> \o Json \o <<".", "bak">>,
     <<"conf", ".", "JSON">>, <<"json">>, <<"conf", "yml">>}

\* the argument of configure_logging
NoneArg == [type |-> "NoneType", dict |-> NoConfig, str |-> <<>>]
DictArg(c) == [type |-> "dict", dict |-> c, str |-> <<>>]
StrArg(p) == [type |-> "str", dict |-> NoConfig, str |-> p]
LogConfigs ==
    {NoneArg} \cup {DictArg(c) : c \in {UserConfig, KSERVE_LOG_CONFIG}}
      \cup {StrArg(p) : p \in Paths}

\* what a file holds: a configuration written in one format, or nothing at all
FileContents ==
    {[format |-> "json", config |-> UserConfig],
     [format |-> "yaml", config |-> UserConfig],
     [format |-> "ini", config |-> IniConfig],
     [format |-> "missing", config |-> NoConfig]}

\* the logging state of a fresh interpreter that has imported the module (lines
\* 72-73 create the loggers), and that state after another library has set up
\* its own handlers and silenced a logger
FreshLogging ==
    [n \in LoggerNames |->
       LoggerSettings(IF n = "root" THEN "WARNING" ELSE "NOTSET", <<>>, TRUE, FALSE)]
UsedLogging ==
    [n \in LoggerNames |->
       LoggerSettings("INFO", IF n = "root" THEN <<"basic">> ELSE <<"old">>,
                      TRUE, n = "storage.initializer")]

\* str.endswith
endswith(str, suffix) ==
    /\ Len(str) >= Len(suffix)
    /\ SubSeq(str, Len(str) - Len(suffix) + 1, Len(str)) = suffix

\* mutant: only the first two suffixes are recognised
select_action_without_yml(arg) ==
    IF arg.type = "NoneType" THEN "dictConfig(KSERVE_LOG_CONFIG)"
    ELSE IF arg.type = "dict" THEN "dictConfig(log_config)"
    ELSE IF endswith(arg.str, Json) THEN "json.load, dictConfig"
    ELSE IF endswith(arg.str, Yaml) THEN "yaml.safe_load, dictConfig"
    ELSE "fileConfig"

\* lines 94-109: the branch the if / elif chain takes
select_action(arg) ==
    IF arg.type = "NoneType" THEN "dictConfig(KSERVE_LOG_CONFIG)"
    ELSE IF arg.type = "dict" THEN "dictConfig(log_config)"
    ELSE IF endswith(arg.str, Json) THEN "json.load, dictConfig"
    ELSE IF endswith(arg.str, Yaml) \/ endswith(arg.str, Yml)
         THEN "yaml.safe_load, dictConfig"
    ELSE "fileConfig"

\* what each reader makes of a file: json.load reads JSON only, yaml.safe_load
\* reads YAML and so JSON too, fileConfig reads the configparser format only
Readable(action, content) ==
    CASE action = "json.load, dictConfig" -> content.format = "json"
      [] action = "yaml.safe_load, dictConfig" -> content.format \in {"json", "yaml"}
      [] action = "fileConfig" -> content.format = "ini"
      [] OTHER -> TRUE

\* mutant: the handlers of a configuration are added to those a logger has
set_handlers_keeping_old(old, new) == old \o new

\* logging.config common_logger_config: the handlers a logger has are removed, then
\* those of the configuration are added
set_handlers(old, new) == new

\* logging.config DictConfigurator.configure / _install_loggers: the loggers the
\* configuration names are set to it and enabled (the root logger has no propagate
\* and is never disabled or enabled), existing children of a named logger are
\* reset, every other existing logger gets disabled = disable_existing
apply_config(state, config, disable_existing) ==
    [n \in LoggerNames |->
       IF n \in DOMAIN config.loggers
       THEN LoggerSettings(config.loggers[n].level,
                           set_handlers(state[n].handlers, config.loggers[n].handlers),
                           IF n = "root" THEN state[n].propagate
                           ELSE config.loggers[n].propagate,
                           IF n = "root" THEN state[n].disabled ELSE FALSE)
       ELSE IF n = "root" THEN state[n]
       ELSE IF \E m \in DOMAIN config.loggers : n \in ChildrenOf(m)
       THEN LoggerSettings("NOTSET", <<>>, TRUE, state[n].disabled)
       ELSE [state[n] EXCEPT !.disabled = disable_existing]]

\* the configuration a call applies and the disable_existing it applies it with
config_applied(arg, content) ==
    CASE select_action(arg) = "dictConfig(KSERVE_LOG_CONFIG)" -> KSERVE_LOG_CONFIG
      [] select_action(arg) = "dictConfig(log_config)" -> arg.dict
      [] OTHER -> content.config
disable_existing_applied(arg, content) ==
    IF select_action(arg) = "fileConfig" THEN FALSE
    ELSE config_applied(arg, content).disable_existing_loggers

InitLogging ==
    /\ logging \in {FreshLogging, UsedLogging}
    /\ log_files \in FileContents
    /\ log_config = NoneArg
    /\ log_previous = NoneArg
    /\ log_calls = 0
    /\ log_action = None
    /\ log_raised = FALSE
    /\ CallIdle /\ ThreadsIdle /\ PollIdle /\ KeysIdle /\ WorkersIdle /\ AuthIdle

\* one call of configure_logging, lines 76-109: a file that cannot be opened or
\* read raises before anything is configured
configure_logging(arg) ==
    /\ log_calls < MaxCalls
    /\ log_calls' = log_calls + 1
    /\ log_config' = arg
    /\ log_previous' = log_config
    /\ log_action' = select_action(arg)
    /\ IF arg.type = "str" /\ ~Readable(select_action(arg), log_files)
       THEN /\ log_raised' = TRUE
            /\ UNCHANGED logging
       ELSE /\ log_raised' = FALSE
            /\ logging' = apply_config(logging, config_applied(arg, log_files),
                                       disable_existing_applied(arg, log_files))
    /\ UNCHANGED log_files
    /\ UNCHANGED outside_logging

ConfigureLogging == \E arg \in LogConfigs : configure_logging(arg)

NextLogging == ConfigureLogging

SpecLogging == InitLogging /\ [][NextLogging]_vars

\* ============================= test_s3_tls_storagespec.py: check_model_status
\* One call of check_model_status, lines 261-304. Texts are sequences of words.
MaxTimeout == 4
MaxInterval == 3

\* the modelStatus an InferenceService may show; a missing transitionStatus or
\* message reads as None and "" (lines 282, 285)
ModelStatus(transition, message) ==
    [transitionStatus |-> transition, message |-> message]
\* line 40
ssl_error == <<"[SSL:", "CERTIFICATE_VERIFY_FAILED]", "certificate", "verify", "failed">>
ModelStatuses ==
    {ModelStatus(None, <<>>), ModelStatus("UpToDate", <<>>),
     ModelStatus("BlockedByFailedLoad", <<"NoSuchBucket">>),
     ModelStatus("BlockedByFailedLoad", <<"init", "error:">> \o ssl_error)}
NoMessage == [given |-> FALSE, text |-> <<>>]
Message(text) == [given |-> TRUE, text |-> text]
ExpectedMessages == {NoMessage, Message(ssl_error), Message(<<"verify", "certificate">>)}

\* round(timeout_seconds / polling_interval) of line 271, for whole seconds and a
\* positive interval: Python rounds a half to the even neighbour
python_round_half_up(n, d) == (2 * n + d) \div (2 * d)

python_round(n, d) ==
    LET q == n \div d
        r == n % d
    IN  IF 2 * r < d THEN q
        ELSE IF 2 * r > d THEN q + 1
        ELSE IF q % 2 = 0 THEN q ELSE q + 1

\* Python's  sub in text  for two strings
contains(sub, text) ==
    \E i \in 1..(Len(text) + 1) :
        /\ i + Len(sub) - 1 <= Len(text)
        /\ SubSeq(text, i, i + Len(sub) - 1) = sub

\* lines 280-282
failure_message_match(expected, status) ==
    IF expected.given THEN contains(expected.text, status.message) ELSE TRUE

\* lines 284-287
status_matches(status, wanted, expected) ==
    status.transitionStatus = wanted /\ failure_message_match(expected, status)

InitPoll ==
    /\ timeout_seconds \in 1..MaxTimeout
    /\ polling_interval \in 0..MaxInterval
    /\ expected_status \in {"UpToDate", "BlockedByFailedLoad"}
    /\ expected_failure_message \in ExpectedMessages
    /\ poll_pc = "start"
    /\ poll_limit = 0
    /\ polls = 0
    /\ poll_slept = 0
    /\ observed = <<>>
    /\ poll_result = None
    /\ CallIdle /\ ThreadsIdle /\ LoggingIdle /\ KeysIdle /\ WorkersIdle /\ AuthIdle

poll_args == <<timeout_seconds, polling_interval, expected_status,
               expected_failure_message>>

\* line 271: the range of the for loop is evaluated once; dividing by a
\* polling_interval of 0 raises ZeroDivisionError
PollEnter ==
    /\ poll_pc = "start"
    /\ IF polling_interval = 0
       THEN /\ poll_pc' = "done"
            /\ poll_result' = "ZeroDivisionError"
            /\ UNCHANGED poll_limit
       ELSE /\ poll_limit' = python_round(timeout_seconds, polling_interval)
            /\ poll_pc' = "for"
            /\ UNCHANGED poll_result
    /\ UNCHANGED <<poll_args, polls, poll_slept, observed>>
    /\ UNCHANGED outside_poll

\* line 271 and lines 290-304: the next iteration, or RuntimeError once the range
\* is used up
PollNext ==
    /\ poll_pc = "for"
    /\ IF polls < poll_limit
       THEN /\ poll_pc' = "sleep"
            /\ UNCHANGED poll_result
       ELSE /\ poll_pc' = "done"
            /\ poll_result' = "RuntimeError"
    /\ UNCHANGED <<poll_args, poll_limit, polls, poll_slept, observed>>
    /\ UNCHANGED outside_poll

\* line 272
PollSleep ==
    /\ poll_pc = "sleep"
    /\ poll_slept' = poll_slept + polling_interval
    /\ poll_pc' = "get"
    /\ UNCHANGED <<poll_args, poll_limit, polls, observed, poll_result>>
    /\ UNCHANGED outside_poll

\* lines 273-288: kserve_client.get answers and the answer is tested
PollGet ==
    /\ poll_pc = "get"
    /\ \E status \in ModelStatuses :
         /\ observed' = Append(observed, status)
         /\ IF status_matches(status, expected_status, expected_failure_message)
            THEN /\ poll_pc' = "done"
                 /\ poll_result' = "return"
            ELSE /\ poll_pc' = "for"
                 /\ UNCHANGED poll_result
    /\ polls' = polls + 1
    /\ UNCHANGED <<poll_args, poll_limit, poll_slept>>
    /\ UNCHANGED outside_poll

\* lines 273-277: kserve_client.get raises, and the exception leaves the call
PollGetRaises ==
    /\ poll_pc = "get"
    /\ polls' = polls + 1
    /\ poll_pc' = "done"
    /\ poll_result' = "raised by kserve_client.get"
    /\ UNCHANGED <<poll_args, poll_limit, poll_slept, observed>>
    /\ UNCHANGED outside_poll

NextPoll == PollEnter \/ PollNext \/ PollSleep \/ PollGet \/ PollGetRaises

\* the call runs on: time.sleep and kserve_client.get come back
SpecPoll == InitPoll /\ [][NextPoll]_vars /\ WF_vars(NextPoll)

\* ====== test_s3_tls_storagespec.py: managed_storage_config_key, managed_ca_bundle_key
\* The with statements of one phase of a test (lines 208-211, 217-219, 228-231,
\* 237-239, 248-250, 256-258): the pass phase of the global and custom tests
\* enters managed_ca_bundle_key, every phase enters managed_storage_config_key,
\* then comes the body. The data of a secret or configmap is a function from the
\* keys it has to their values.
Tests == {"global", "custom", "serving"}
Phases == {"pass", "fail"}

\* lines 206-207, 216-217, 227-228, 236-237, 247-248, 255-256
storage_key_of(test) ==
    CASE test = "global" -> "localTLSS3Global"
      [] test = "custom" -> "localTLSS3Custom"
      [] test = "serving" -> "localTLSS3Serving"
data_key_of(test) == IF test = "global" THEN "ca-bundle.crt" ELSE "odh-ca-bundle.crt"
uses_ca_bundle_key(test, phase) == phase = "pass" /\ test # "serving"

\* lines 43-58
create_storage_config_json(service_name, cabundle_configmap) ==
    [endpoint_url |-> <<"https://", service_name, ".kserve.svc:8333">>,
     cabundle_configmap |-> cabundle_configmap]
storage_config_of(test, phase) ==
    create_storage_config_json(
        IF test = "serving" THEN "seaweedfs-tls-serving-service"
        ELSE "seaweedfs-tls-custom-service",
        IF phase = "pass" THEN "odh-kserve-custom-ca-bundle" ELSE None)

\* base64 and JSON texts, kept apart from what they encode
b64encode(text) == [b64 |-> text]
b64decode(encoded) == encoded.b64
json_dumps(value) == [json |-> value]

\* line 125
encoded_value(storage_config) == b64encode(json_dumps(storage_config))
\* lines 181-184: root.crt of the secret seaweedfs-tls-custom, decoded
RootCrt == "seaweedfs root certificate"
cert_data == b64decode(b64encode(RootCrt))

\* what the secret and the configmap may hold before the test
OtherStorageKey == "localMinIO"
SecretKeys == {storage_key_of(t) : t \in Tests} \cup {OtherStorageKey}
ConfigMapKeys == {"ca-bundle.crt", "odh-ca-bundle.crt"}
OldValue == encoded_value(create_storage_config_json("minio-service", None))
OldCert == "cluster certificate"

\* mutant: the patch body replaces the data of the object
merge_patch_replacing_data(obj_data, key, value) == [k \in {key} |-> value]

\* patch_namespaced_secret / patch_namespaced_config_map with a dict body
\* {"data": {key: value}}: a merge patch, which sets the key and keeps the others
merge_patch(obj_data, key, value) ==
    [k \in DOMAIN obj_data \cup {key} |-> IF k = key THEN value ELSE obj_data[k]]

\* the same calls with a list body [{"op": "remove", "path": "/data/<key>"}]: a
\* JSON Patch, which removes the key and is refused when the key is not there
json_patch_remove_ok(obj_data, key) == key \in DOMAIN obj_data
json_patch_remove(obj_data, key) ==
    IF json_patch_remove_ok(obj_data, key)
    THEN [k \in DOMAIN obj_data \ {key} |-> obj_data[k]]
    ELSE obj_data

InitKeys ==
    /\ test_name \in Tests
    /\ test_phase \in Phases
    /\ key_pc = "enter"
    /\ secret_data \in {[k \in K |-> OldValue] :
                           K \in SUBSET {OtherStorageKey, storage_key_of(test_name)}}
    /\ configmap_data \in {[k \in K |-> OldCert] : K \in SUBSET ConfigMapKeys}
    /\ in_flight = None
    /\ isvc = "absent"
    /\ CallIdle /\ ThreadsIdle /\ LoggingIdle /\ PollIdle /\ WorkersIdle /\ AuthIdle

test_args == <<test_name, test_phase>>

\* lines 178-191: managed_ca_bundle_key up to its yield
EnterCaBundleKey ==
    /\ key_pc = "enter"
    /\ uses_ca_bundle_key(test_name, test_phase)
    /\ configmap_data' = merge_patch(configmap_data, data_key_of(test_name), cert_data)
    /\ key_pc' = "ca_bundle_key"
    /\ UNCHANGED <<test_args, secret_data, in_flight, isvc>>
    /\ UNCHANGED outside_keys

\* lines 118-131: managed_storage_config_key up to its yield
EnterStorageConfigKey ==
    /\ \/ key_pc = "ca_bundle_key"
       \/ key_pc = "enter" /\ ~uses_ca_bundle_key(test_name, test_phase)
    /\ secret_data' = merge_patch(secret_data, storage_key_of(test_name),
                                  encoded_value(storage_config_of(test_name, test_phase)))
    /\ key_pc' = "body"
    /\ UNCHANGED <<test_args, configmap_data, in_flight, isvc>>
    /\ UNCHANGED outside_keys

\* lines 98-105: managed_isvc up to its yield
CreateIsvc ==
    /\ key_pc = "body"
    /\ isvc' = "present"
    /\ key_pc' = "isvc_body"
    /\ UNCHANGED <<test_args, secret_data, configmap_data, in_flight>>
    /\ UNCHANGED outside_keys

\* lines 105-106: the yield of managed_isvc stands in no try statement, so the
\* generator runs on to its delete only when the body came to its end; an
\* exception of the body leaves the generator at the yield
managed_isvc_runs_on(exc) == exc = None

\* the body of the with statements, check_model_status, comes to its end or
\* raises
WithBody ==
    /\ key_pc = "isvc_body"
    /\ \E exc \in {None, "RuntimeError"} :
         /\ in_flight' = exc
         /\ key_pc' = IF managed_isvc_runs_on(exc) THEN "isvc_exit"
                      ELSE "storage_config_key_exit"
    /\ UNCHANGED <<test_args, secret_data, configmap_data, isvc>>
    /\ UNCHANGED outside_keys

\* line 106: kserve_client.delete; the cluster marks the object for deletion
DeleteIsvc ==
    /\ key_pc = "isvc_exit"
    /\ isvc' = "terminating"
    /\ key_pc' = "isvc_wait"
    /\ UNCHANGED <<test_args, secret_data, configmap_data, in_flight>>
    /\ UNCHANGED outside_keys

\* the cluster finishes the deletion of the InferenceService
IsvcGone ==
    /\ isvc = "terminating"
    /\ isvc' = "absent"
    /\ UNCHANGED <<test_args, key_pc, secret_data, configmap_data, in_flight>>
    /\ UNCHANGED outside_keys

\* lines 107-115: wait_for_resource_deletion comes back once the read of the
\* InferenceService finds it gone
WaitForIsvcDeletion ==
    /\ key_pc = "isvc_wait"
    /\ isvc = "absent"
    /\ key_pc' = "storage_config_key_exit"
    /\ UNCHANGED <<test_args, secret_data, configmap_data, in_flight, isvc>>
    /\ UNCHANGED outside_keys

\* lines 132-141: the finally of managed_storage_config_key; a refused patch
\* raises in place of what was in flight
ExitStorageConfigKey ==
    /\ key_pc = "storage_config_key_exit"
    /\ secret_data' = json_patch_remove(secret_data, storage_key_of(test_name))
    /\ in_flight' = IF json_patch_remove_ok(secret_data, storage_key_of(test_name))
                    THEN in_flight ELSE "ApiException"
    /\ key_pc' = IF uses_ca_bundle_key(test_name, test_phase)
                 THEN "ca_bundle_key_exit" ELSE "done"
    /\ UNCHANGED <<test_args, configmap_data, isvc>>
    /\ UNCHANGED outside_keys

\* lines 192-199: the finally of managed_ca_bundle_key
ExitCaBundleKey ==
    /\ key_pc = "ca_bundle_key_exit"
    /\ configmap_data' = json_patch_remove(configmap_data, data_key_of(test_name))
    /\ in_flight' = IF json_patch_remove_ok(configmap_data, data_key_of(test_name))
                    THEN in_flight ELSE "ApiException"
    /\ key_pc' = "done"
    /\ UNCHANGED <<test_args, secret_data, isvc>>
    /\ UNCHANGED outside_keys

NextKeys ==
    \/ EnterCaBundleKey
    \/ EnterStorageConfigKey
    \/ CreateIsvc
    \/ WithBody
    \/ DeleteIsvc
    \/ IsvcGone
    \/ WaitForIsvcDeletion
    \/ ExitStorageConfigKey
    \/ ExitCaBundleKey

SpecKeys == InitKeys /\ [][NextKeys]_vars

\* ===== test_s3_tls_storagespec.py: odh_trusted_ca_bundle_configmap, two workers
\* Two test workers share the namespace. The module has two tests that ask for
\* the module-scoped fixture, so each worker that sets the fixture up runs one of
\* them: the fixture's setup, managed_ca_bundle_key around the test, the fixture's
\* teardown. The API server answers each call with an HTTP status.
Workers == {1, 2}
\* lines 208 and 228
data_key_of_worker(w) == IF w = 1 THEN "ca-bundle.crt" ELSE "odh-ca-bundle.crt"

NoConfigMap == [exists |-> FALSE, keys |-> {}]
\* lines 148-153: data={}
EmptyConfigMap == [exists |-> TRUE, keys |-> {}]
NoException == [fixture |-> 0, test |-> 0]

\* a status the API server may answer any call with for reasons of its own
Forbidden == 403
\* what create_namespaced_config_map may be answered
create_answers(configmap) == (IF configmap.exists THEN {409} ELSE {201}) \cup {Forbidden}
\* what delete_namespaced_config_map may be answered
delete_answers(configmap) == (IF configmap.exists THEN {200} ELSE {404}) \cup {Forbidden}
\* what the patches of managed_ca_bundle_key are answered
add_answer(configmap) == IF configmap.exists THEN 200 ELSE 404
remove_answer(configmap, key) ==
    IF ~configmap.exists THEN 404 ELSE IF key \in configmap.keys THEN 200 ELSE 422

\* the client raises ApiException for every status that is not a success
is_api_exception(status) == status >= 300

\* mutant: no status is swallowed
swallowed_on_create_none(status) == FALSE

\* lines 160-162
swallowed_on_create(status) == status = 409

\* mutant: every status is swallowed
swallowed_on_delete_any(status) == TRUE

\* lines 173-175
swallowed_on_delete(status) == status = 404

InitWorkers ==
    /\ cm \in {NoConfigMap, EmptyConfigMap}
    /\ w_pc = [w \in Workers |-> "setup"]
    /\ w_status = [w \in Workers |-> <<>>]
    /\ w_raised = [w \in Workers |-> NoException]
    /\ CallIdle /\ ThreadsIdle /\ LoggingIdle /\ PollIdle /\ KeysIdle /\ AuthIdle

\* lines 146-163: the fixture up to its yield
FixtureSetup(w) ==
    /\ w_pc[w] = "setup"
    /\ \E status \in create_answers(cm) :
         /\ w_status' = [w_status EXCEPT ![w] = Append(@, status)]
         /\ cm' = IF status = 201 THEN EmptyConfigMap ELSE cm
         /\ IF is_api_exception(status) /\ ~swallowed_on_create(status)
            THEN /\ w_raised' = [w_raised EXCEPT ![w].fixture = status]
                 /\ w_pc' = [w_pc EXCEPT ![w] = "done"]
            ELSE /\ w_pc' = [w_pc EXCEPT ![w] = "yielded"]
                 /\ UNCHANGED w_raised
    /\ UNCHANGED outside_workers

\* lines 178-191: managed_ca_bundle_key up to its yield; its patch raises when
\* the configmap is not there, which ends the test
AddCaBundleKey(w) ==
    /\ w_pc[w] = "yielded"
    /\ w_status' = [w_status EXCEPT ![w] = Append(@, add_answer(cm))]
    /\ IF is_api_exception(add_answer(cm))
       THEN /\ w_raised' = [w_raised EXCEPT ![w].test = add_answer(cm)]
            /\ w_pc' = [w_pc EXCEPT ![w] = "teardown"]
            /\ UNCHANGED cm
       ELSE /\ cm' = [cm EXCEPT !.keys = @ \cup {data_key_of_worker(w)}]
            /\ w_pc' = [w_pc EXCEPT ![w] = "in_test"]
            /\ UNCHANGED w_raised
    /\ UNCHANGED outside_workers

\* lines 192-199: the finally of managed_ca_bundle_key, which ends the test
RemoveCaBundleKey(w) ==
    /\ w_pc[w] = "in_test"
    /\ LET status == remove_answer(cm, data_key_of_worker(w))
       IN  /\ w_status' = [w_status EXCEPT ![w] = Append(@, status)]
           /\ IF is_api_exception(status)
              THEN /\ w_raised' = [w_raised EXCEPT ![w].test = status]
                   /\ UNCHANGED cm
              ELSE /\ cm' = [cm EXCEPT !.keys = @ \ {data_key_of_worker(w)}]
                   /\ UNCHANGED w_raised
    /\ w_pc' = [w_pc EXCEPT ![w] = "teardown"]
    /\ UNCHANGED outside_workers

\* lines 164-167 and 173-175: the fixture after its yield, the delete
FixtureTeardown(w) ==
    /\ w_pc[w] = "teardown"
    /\ \E status \in delete_answers(cm) :
         /\ w_status' = [w_status EXCEPT ![w] = Append(@, status)]
         /\ cm' = IF status = 200 THEN NoConfigMap ELSE cm
         /\ IF is_api_exception(status)
            THEN /\ w_pc' = [w_pc EXCEPT ![w] = "done"]
                 /\ w_raised' = IF swallowed_on_delete(status) THEN w_raised
                                 ELSE [w_raised EXCEPT ![w].fixture = status]
            ELSE /\ w_pc' = [w_pc EXCEPT ![w] = "wait"]
                 /\ UNCHANGED w_raised
    /\ UNCHANGED outside_workers

\* lines 168-172: wait_for_resource_deletion comes back once the read of the
\* configmap finds it gone
WaitForConfigMapDeletion(w) ==
    /\ w_pc[w] = "wait"
    /\ ~cm.exists
    /\ w_pc' = [w_pc EXCEPT ![w] = "done"]
    /\ UNCHANGED <<cm, w_status, w_raised>>
    /\ UNCHANGED outside_workers

NextWorkers ==
    \E w \in Workers :
        \/ FixtureSetup(w)
        \/ AddCaBundleKey(w)
        \/ RemoveCaBundleKey(w)
        \/ FixtureTeardown(w)
        \/ WaitForConfigMapDeletion(w)

SpecWorkers == InitWorkers /\ [][NextWorkers]_vars

\* ===== test_llm_auth.py: the three LLM auth tests =====
\* A test creates the LLMInferenceService, provisions a ServiceAccount with a
\* Role and a RoleBinding (two of the three tests), sends its requests, and
\* cleans up in its finally. Every call to the API server ends with a return or
\* with an exception; api_calls keeps the calls in the order they were made.
AuthTests == {"test_llm_auth_enabled_requires_token",
              "test_llm_auth_invalid_token_rejected",
              "test_llm_auth_disabled_no_token_required"}
\* lines 247, 382: the tests that provision and clean up a ServiceAccount
uses_service_account(test) == test # "test_llm_auth_disabled_no_token_required"

NoExc == [type |-> "none", status |-> 0]
ApiException(status) == [type |-> "ApiException", status |-> status]
\* what the kubernetes client raises when the API server cannot be reached
MaxRetryError == [type |-> "MaxRetryError", status |-> 0]
AssertionError == [type |-> "AssertionError", status |-> 0]

\* mutant: the except clause catches nothing
is_Exception_never(exc) == FALSE

\* lines 293, 327: except Exception
is_Exception(exc) == exc.type \in {"ApiException", "MaxRetryError", "AssertionError"}

\* a resource is absent, exists with another definition, or exists as desired
create_outcomes(resource) ==
    (IF resource = "absent" THEN {NoExc} ELSE {ApiException(409)})
        \cup {ApiException(Forbidden)}
replace_outcomes(resource) ==
    (IF resource = "absent" THEN {ApiException(404)} ELSE {NoExc})
        \cup {ApiException(Forbidden)}
delete_outcomes(resource) ==
    (IF resource = "absent" THEN {ApiException(404)} ELSE {NoExc})
        \cup {ApiException(Forbidden), MaxRetryError}
token_outcomes == {NoExc, ApiException(Forbidden)}

\* mutant: 409 is treated as any other status
already_exists_never(exc) == FALSE

\* lines 67, 89, 118: e.status == 409
already_exists(exc) == exc.status = 409

\* mutant: only "not found" is swallowed
swallowed_by_cleanup_404(exc) == exc = ApiException(404)

\* lines 179, 185, 191: except client.rest.ApiException: pass
swallowed_by_cleanup(exc) == exc.type = "ApiException"

\* os.environ: a variable is unset or holds one of these texts
Unset == "unset"
EnvValues == {Unset, "True", "yes"}
getenv(name, default) == IF environ[name] = Unset THEN default ELSE environ[name]
lower(text) == IF text = "True" THEN "true" ELSE IF text = "False" THEN "false" ELSE text
\* lines 302-315
skip_all_deletion == lower(getenv("SKIP_RESOURCE_DELETION", "False")) \in {"true", "1", "t"}
skip_deletion_on_failure ==
    lower(getenv("SKIP_DELETION_ON_FAILURE", "False")) \in {"true", "1", "t"}
\* lines 317-319
should_skip_deletion == skip_all_deletion \/ (skip_deletion_on_failure /\ test_failed)

Call(name, exc) == [call |-> name, ended |-> exc]

InitAuth ==
    /\ auth_test \in AuthTests
    /\ environ \in [{"SKIP_RESOURCE_DELETION", "SKIP_DELETION_ON_FAILURE"} -> EnvValues]
    /\ cluster \in [{"sa", "role", "role_binding"} -> {"absent", "other"}]
                     \cup [{"sa", "role", "role_binding"} -> {"absent", "desired"}]
    /\ auth_pc = "start"
    /\ api_calls = <<>>
    /\ test_failed = FALSE
    /\ token = "none"
    /\ auth_in_flight = NoExc
    /\ auth_outcome = "running"
    /\ CallIdle /\ ThreadsIdle /\ LoggingIdle /\ PollIdle /\ KeysIdle /\ WorkersIdle

\* where an exception raised in the try body goes: lines 293-298
body_raises(exc) ==
    /\ auth_in_flight' = exc
    /\ auth_pc' = IF is_Exception(exc) THEN "except" ELSE "finally"

\* lines 241-244: create_llmisvc and wait_for_llm_isvc_ready
CreateLlmisvc ==
    /\ auth_pc = "start"
    /\ \E exc \in {NoExc, AssertionError} :
         /\ api_calls' = Append(api_calls, Call("create_llmisvc", exc))
         /\ IF exc = NoExc
            THEN /\ auth_pc' = IF uses_service_account(auth_test)
                               THEN "create_sa" ELSE "requests"
                 /\ UNCHANGED auth_in_flight
            ELSE body_raises(exc)
    /\ UNCHANGED <<auth_test, environ, cluster, test_failed, token, auth_outcome>>
    /\ UNCHANGED outside_auth

\* lines 63-70
CreateServiceAccount ==
    /\ auth_pc = "create_sa"
    /\ \E exc \in create_outcomes(cluster.sa) :
         /\ api_calls' = Append(api_calls, Call("create_namespaced_service_account", exc))
         /\ cluster' = IF exc = NoExc THEN [cluster EXCEPT !.sa = "desired"] ELSE cluster
         /\ IF exc = NoExc \/ already_exists(exc)
            THEN auth_pc' = "create_role" /\ UNCHANGED auth_in_flight
            ELSE body_raises(exc)
    /\ UNCHANGED <<auth_test, environ, test_failed, token, auth_outcome>>
    /\ UNCHANGED outside_auth

\* lines 85-89, 94-95
CreateRole ==
    /\ auth_pc = "create_role"
    /\ \E exc \in create_outcomes(cluster.role) :
         /\ api_calls' = Append(api_calls, Call("create_namespaced_role", exc))
         /\ cluster' = IF exc = NoExc THEN [cluster EXCEPT !.role = "desired"] ELSE cluster
         /\ IF exc = NoExc
            THEN auth_pc' = "create_binding" /\ UNCHANGED auth_in_flight
            ELSE IF already_exists(exc)
            THEN auth_pc' = "replace_role" /\ UNCHANGED auth_in_flight
            ELSE body_raises(exc)
    /\ UNCHANGED <<auth_test, environ, test_failed, token, auth_outcome>>
    /\ UNCHANGED outside_auth

\* lines 90-93
ReplaceRole ==
    /\ auth_pc = "replace_role"
    /\ \E exc \in replace_outcomes(cluster.role) :
         /\ api_calls' = Append(api_calls, Call("replace_namespaced_role", exc))
         /\ cluster' = IF exc = NoExc THEN [cluster EXCEPT !.role = "desired"] ELSE cluster
         /\ IF exc = NoExc
            THEN auth_pc' = "create_binding" /\ UNCHANGED auth_in_flight
            ELSE body_raises(exc)
    /\ UNCHANGED <<auth_test, environ, test_failed, token, auth_outcome>>
    /\ UNCHANGED outside_auth

\* lines 114-118, 123-124
CreateRoleBinding ==
    /\ auth_pc = "create_binding"
    /\ \E exc \in create_outcomes(cluster.role_binding) :
         /\ api_calls' = Append(api_calls, Call("create_namespaced_role_binding", exc))
         /\ cluster' = IF exc = NoExc THEN [cluster EXCEPT !.role_binding = "desired"]
                       ELSE cluster
         /\ IF exc = NoExc
            THEN auth_pc' = "token" /\ UNCHANGED auth_in_flight
            ELSE IF already_exists(exc)
            THEN auth_pc' = "replace_binding" /\ UNCHANGED auth_in_flight
            ELSE body_raises(exc)
    /\ UNCHANGED <<auth_test, environ, test_failed, token, auth_outcome>>
    /\ UNCHANGED outside_auth

\* lines 119-122
ReplaceRoleBinding ==
    /\ auth_pc = "replace_binding"
    /\ \E exc \in replace_outcomes(cluster.role_binding) :
         /\ api_calls' = Append(api_calls, Call("replace_namespaced_role_binding", exc))
         /\ cluster' = IF exc = NoExc THEN [cluster EXCEPT !.role_binding = "desired"]
                       ELSE cluster
         /\ IF exc = NoExc
            THEN auth_pc' = "token" /\ UNCHANGED auth_in_flight
            ELSE body_raises(exc)
    /\ UNCHANGED <<auth_test, environ, test_failed, token, auth_outcome>>
    /\ UNCHANGED outside_auth

\* lines 127, 130-159
get_service_account_token ==
    /\ auth_pc = "token"
    /\ \E exc \in token_outcomes :
         /\ api_calls' = Append(api_calls,
                                Call("create_namespaced_service_account_token", exc))
         /\ IF exc = NoExc
            THEN /\ token' = "token"
                 /\ auth_pc' = "requests"
                 /\ UNCHANGED auth_in_flight
            ELSE /\ body_raises(exc)
                 /\ UNCHANGED token
    /\ UNCHANGED <<auth_test, environ, cluster, test_failed, auth_outcome>>
    /\ UNCHANGED outside_auth

\* lines 251-291, 384-412, 508-529: the requests and the assertions on them
Requests ==
    /\ auth_pc = "requests"
    /\ \E exc \in {NoExc, AssertionError} :
         /\ api_calls' = Append(api_calls, Call("requests.post", exc))
         /\ IF exc = NoExc
            THEN auth_pc' = "finally" /\ UNCHANGED auth_in_flight
            ELSE body_raises(exc)
    /\ UNCHANGED <<auth_test, environ, cluster, test_failed, token, auth_outcome>>
    /\ UNCHANGED outside_auth

\* lines 293-297, 414-418, 531-535
ExceptHandler ==
    /\ auth_pc = "except"
    /\ test_failed' = TRUE
    /\ api_calls' = Append(api_calls, Call("_collect_diagnostics", NoExc))
    /\ auth_pc' = "finally"
    /\ UNCHANGED <<auth_test, environ, cluster, token, auth_in_flight, auth_outcome>>
    /\ UNCHANGED outside_auth

\* lines 298-300, 419-421, 536-537
EnterFinally ==
    /\ auth_pc = "finally"
    /\ auth_pc' = IF uses_service_account(auth_test) THEN "delete_binding" ELSE "decide"
    /\ UNCHANGED <<auth_test, environ, cluster, api_calls, test_failed, token,
                   auth_in_flight, auth_outcome>>
    /\ UNCHANGED outside_auth

\* one deletion of cleanup_service_account
delete_step(name, resource, next_pc) ==
    \E exc \in delete_outcomes(cluster[resource]) :
        /\ api_calls' = Append(api_calls, Call(name, exc))
        /\ cluster' = IF exc = NoExc THEN [cluster EXCEPT ![resource] = "absent"]
                      ELSE cluster
        /\ auth_pc' = IF exc = NoExc \/ swallowed_by_cleanup(exc) THEN next_pc
                      ELSE "cleanup_failed"

\* lines 174-180
DeleteRoleBinding ==
    /\ auth_pc = "delete_binding"
    /\ delete_step("delete_namespaced_role_binding", "role_binding", "delete_role")
    /\ UNCHANGED <<auth_test, environ, test_failed, token, auth_in_flight, auth_outcome>>
    /\ UNCHANGED outside_auth

\* lines 182-186
DeleteRole ==
    /\ auth_pc = "delete_role"
    /\ delete_step("delete_namespaced_role", "role", "delete_sa")
    /\ UNCHANGED <<auth_test, environ, test_failed, token, auth_in_flight, auth_outcome>>
    /\ UNCHANGED outside_auth

\* lines 188-192
DeleteServiceAccount ==
    /\ auth_pc = "delete_sa"
    /\ delete_step("delete_namespaced_service_account", "sa", "decide")
    /\ UNCHANGED <<auth_test, environ, test_failed, token, auth_in_flight, auth_outcome>>
    /\ UNCHANGED outside_auth

\* lines 302-326, 423-447, 538-562
DecideDeletion ==
    /\ auth_pc = "decide"
    /\ IF should_skip_deletion
       THEN /\ auth_pc' = "exit"
            /\ UNCHANGED api_calls
       ELSE \E exc \in {NoExc, ApiException(Forbidden)} :
              /\ api_calls' = Append(api_calls, Call("delete_llmisvc", exc))
              /\ auth_pc' = IF exc = NoExc THEN "exit" ELSE "cleanup_failed"
    /\ UNCHANGED <<auth_test, environ, cluster, test_failed, token, auth_in_flight,
                   auth_outcome>>
    /\ UNCHANGED outside_auth

\* lines 327-328, 448-449, 563-564
CleanupFailed ==
    /\ auth_pc = "cleanup_failed"
    /\ api_calls' = Append(api_calls, Call("logger.warning", NoExc))
    /\ auth_pc' = "exit"
    /\ UNCHANGED <<auth_test, environ, cluster, test_failed, token, auth_in_flight,
                   auth_outcome>>
    /\ UNCHANGED outside_auth

\* the end of the finally: the exception of the body, if any, goes on
ExitTest ==
    /\ auth_pc = "exit"
    /\ auth_outcome' = IF auth_in_flight = NoExc THEN "passed" ELSE auth_in_flight.type
    /\ auth_pc' = "done"
    /\ UNCHANGED <<auth_test, environ, cluster, api_calls, test_failed, token,
                   auth_in_flight>>
    /\ UNCHANGED outside_auth

NextAuth ==
    \/ CreateLlmisvc
    \/ CreateServiceAccount
    \/ CreateRole
    \/ ReplaceRole
    \/ CreateRoleBinding
    \/ ReplaceRoleBinding
    \/ get_service_account_token
    \/ Requests
    \/ ExceptHandler
    \/ EnterFinally
    \/ DeleteRoleBinding
    \/ DeleteRole
    \/ DeleteServiceAccount
    \/ DecideDeletion
    \/ CleanupFailed
    \/ ExitTest

SpecAuth == InitAuth /\ [][NextAuth]_vars

\* ================================================================ claims
Done == pc = "done"
GotResponse == last.kind = "response" \/ prior \cap {"forced", "unforced"} # {}
\* a 413/429/503 that carries a Retry-After header
AsksRetryAfter(out) ==
    out.kind = "response" /\ out.retry_after # NoHeader
      /\ out.status \in RETRY_AFTER_STATUS_CODES

\* C1 as stated: one call makes at most total_retries + 1 request attempts, whatever
\* the transport answers.
C1_AtMostNPlus1Attempts == attempts <= total_retries + 1

\* C1 amended: every request the call issues (the original one and each redirect the
\* session follows) gets at most total_retries + 1 attempts, so a call that follows r
\* redirects makes at most (r + 1) * (total_retries + 1) attempts, and at most
\* total_retries + 1 when it follows none.
C1_AtMostNPlus1AttemptsPerRequest ==
    /\ Len(retry.history) <= total_retries
    /\ attempts <= (redirects + 1) * (total_retries + 1)
    /\ pc = "sleep" => attempts <= redirects * (total_retries + 1) + Len(retry.history)

C1_Witness ==
    Done /\ redirects = 0 /\ total_retries = 2 /\ attempts = 3 /\ "error" \in prior

\* C2: when every attempt is answered by a status in retry_status_codes, the call
\* makes exactly total_retries + 1 attempts and returns the last response, not an error.
C2_AlwaysRetryableReturnsLast ==
    (Done /\ "forced" \in Kinds(last) /\ prior \subseteq {"forced", "retry_after"})
      => (attempts = total_retries + 1 /\ result = Returned(last))

C2_Witness ==
    /\ Done /\ total_retries = 2 /\ attempts = 3
    /\ retry_status_codes = DEFAULT_RETRY_STATUS_CODES
    /\ prior = {"forced"} /\ last.status = 404 /\ result = Returned(last)

\* C3 as stated: a response whose status is not in retry_status_codes ends the call,
\* which returns it as it is.
C3_UnforcedStatusIsTerminal ==
    (last.kind = "response" /\ last.status \notin retry_status_codes)
      => (Done /\ result = Returned(last))

\* C3 amended: an attempt answered by a status outside retry_status_codes ends the
\* call, which returns that response without raising, unless the response is a
\* redirect (the session follows it) or a 413/429/503 carrying Retry-After while a
\* retry is left (it is retried); such a status on the first attempt gives 1 attempt.
C3_TerminalUnlessRedirectOrRetryAfter ==
    [][(/\ attempts' = attempts + 1
        /\ last'.kind = "response"
        /\ last'.status \notin retry_status_codes
        /\ ~(last'.location /\ last'.status \in REDIRECT_STATI)
        /\ ~(AsksRetryAfter(last') /\ retry.total # 0))
       => (/\ pc' = "done"
           /\ result' = Returned(last')
           /\ session' = "closed")]_vars

C3_Witness ==
    /\ Done /\ attempts = 1 /\ last.status = 400 /\ result = Returned(last)
    /\ total_retries = 2

\* C4: with json_data and data both given the call raises ValueError before any I/O:
\* no request attempt and no session.
C4_BothBodiesRejected ==
    (json_data # None /\ data # None)
      => /\ attempts = 0
         /\ session = "none"
         /\ pc \in {"start", "done"}
         /\ Done => result = Raised("ValueError", None)

C4_Witness ==
    Done /\ json_data # None /\ data # None /\ result.exc = "ValueError"

\* The retry about to be sent is retry number Len(retry.history) of its request, and
\* the wait that preceded it is the last one recorded.
RetryNo == Len(retry.history)
AboutToRetry == pc = "send" /\ RetryNo >= 1

\* C5 as stated, on failures that carry no Retry-After delay: the wait before retry i
\* is backoff_factor * 2^(i-1), up to the cap; backoff_factor before the first retry.
C5_WaitIsFactorTimesPow2 ==
    (AboutToRetry /\ last.retry_after <= 0)
      => last_wait = Min(DEFAULT_BACKOFF_MAX, backoff_factor * Pow2(RetryNo - 1))

\* C5 amended: the first retry of a request is immediate (no wait); the wait before
\* retry i >= 2 is backoff_factor * 2^(i-1) capped at 120 s; and when the failed
\* response carries a Retry-After delay, that delay is the wait instead.
C5_FirstRetryImmediateThenGeometric ==
    AboutToRetry
      => /\ last.retry_after <= 0
              => last_wait = (IF RetryNo = 1 THEN 0
                             ELSE Min(DEFAULT_BACKOFF_MAX,
                                      backoff_factor * Pow2(RetryNo - 1)))
         /\ last.retry_after > 0 => last_wait = last.retry_after

C5_Witness ==
    /\ AboutToRetry /\ RetryNo = 2 /\ backoff_factor = 1 /\ redirects = 0
    /\ last_wait = 2 /\ sleeps = 1 /\ attempts = 2

\* the first k attempts failed retryably (status in retry_status_codes without a
\* Retry-After delay, or network failure) and no redirect was followed
OnlyRetryableFailuresBefore == prior \subseteq {"forced", "error"} /\ redirects = 0

\* C6 as stated, for a positive backoff_factor and final responses that are neither
\* redirects nor carry Retry-After: after k retryable failures, a response with a
\* status outside retry_status_codes is returned after exactly k + 1 attempts and
\* exactly k waits (503, 503, 200 with total_retries = 2: the 200 after 2 waits).
C6_ReturnedAfterKWaits ==
    (OnlyRetryableFailuresBefore /\ backoff_factor > 0 /\ last.kind = "response"
       /\ last.status \notin retry_status_codes
       /\ ~last.location /\ last.retry_after = NoHeader)
      => (Done /\ result = Returned(last) /\ sleeps = attempts - 1)

\* C6 amended: after k retryable failures (none carrying Retry-After), a response
\* with a status outside retry_status_codes that is neither a followed redirect nor a
\* 413/429/503 with Retry-After is returned, not raised, after exactly k + 1 attempts
\* and max(k - 1, 0) sleeps (none when backoff_factor = 0): the first retry is
\* immediate.  503, 503, 200 with total_retries = 2: the 200 after one sleep.
C6_ReturnedAfterKMinus1Sleeps ==
    (OnlyRetryableFailuresBefore /\ last.kind = "response"
       /\ last.status \notin retry_status_codes
       /\ ~(last.location /\ last.status \in REDIRECT_STATI)
       /\ ~AsksRetryAfter(last))
      => /\ Done
         /\ result = Returned(last)
         /\ sleeps = (IF backoff_factor = 0 THEN 0 ELSE Max(attempts - 2, 0))

C6_Witness ==
    /\ Done /\ total_retries = 2 /\ attempts = 3 /\ prior = {"forced"} /\ redirects = 0
    /\ retry_status_codes = DEFAULT_RETRY_STATUS_CODES
    /\ backoff_factor = 1 /\ result = Returned(Response(200, NoHeader))
    /\ last_wait = 2 /\ sleeps = 1

\* C7: when every attempt ends in a network failure the call retries until
\* total_retries + 1 attempts are made and then raises an error that carries the last
\* failure.
C7_NetworkFailuresExhaustThenRaise ==
    (last.kind = "error" /\ prior \subseteq {"error"})
      => /\ attempts <= total_retries + 1
         /\ Done <=> attempts = total_retries + 1
         /\ Done => result = Raised("ConnectionError", last.error)

C7_Witness ==
    /\ Done /\ total_retries = 2 /\ attempts = 3 /\ prior = {"error"}
    /\ result = Raised("ConnectionError", "ReadTimeoutError")

\* the call ended because the latest attempt failed retryably with no retry left
ExhaustedOnRetryable ==
    /\ Done
    /\ retry.total = 0
    /\ \/ last.kind = "error"
       \/ last.kind = "response" /\ last.status \in retry_status_codes

\* C8 as stated, on calls that follow no redirect: on exhaustion the last received
\* response is returned whenever some attempt received one; an error is raised only
\* when no attempt received a response.
C8_ResponseWheneverOneWasReceived ==
    (ExhaustedOnRetryable /\ redirects = 0)
      => (IF GotResponse THEN result.kind = "response" ELSE result.kind = "raise")

\* C8 amended: on exhaustion the outcome of the last attempt decides: its response is
\* returned when it received one, and its network failure is raised when it did not,
\* even if an earlier attempt received a response.
C8_LastAttemptDecides ==
    ExhaustedOnRetryable
      => /\ last.kind = "response" => result = Returned(last)
         /\ last.kind = "error" => result = Raised("ConnectionError", last.error)

C8_Witness ==
    /\ ExhaustedOnRetryable /\ total_retries = 1 /\ attempts = 2
    /\ prior = {"forced"} /\ last.kind = "error" /\ result.kind = "raise"

\* C9 as stated: with total_retries = 0 a call that reaches the transport makes
\* exactly one attempt and no wait, and a failed attempt gives a network error.
C9_ZeroRetriesOneAttempt ==
    (total_retries = 0 /\ attempts >= 1)
      => /\ attempts = 1
         /\ sleeps = 0
         /\ pc = "done"
         /\ last.kind = "error" => result = Raised("ConnectionError", last.error)

\* C9 amended: with total_retries = 0 every request the call issues gets exactly one
\* attempt, so the call makes exactly one attempt unless it follows redirects (then one
\* more per redirect followed); it never waits, and a failed attempt ends the call
\* with a network error.
C9_ZeroRetriesOneAttemptPerRequest ==
    (total_retries = 0 /\ attempts >= 1)
      => /\ sleeps = 0 /\ last_wait = 0
         /\ pc # "sleep"
         /\ IF Done THEN attempts = redirects + 1 ELSE attempts = redirects
         /\ redirects = 0 => (attempts = 1 /\ Done)
         /\ last.kind = "error" => (Done /\ result = Raised("ConnectionError", last.error))

C9_Witness ==
    /\ Done /\ total_retries = 0 /\ attempts = 1 /\ sleeps = 0
    /\ result = Raised("ConnectionError", "NewConnectionError")

\* C10 as stated: whenever the last attempt completed an HTTP exchange the call
\* returns that response; no error is raised because of a response's status.
C10_LastResponseAlwaysReturned ==
    (Done /\ last.kind = "response") => result = Returned(last)

\* C10 amended: whenever the last attempt completed an HTTP exchange the call returns
\* that response, also after exhausting the retries on a status in
\* retry_status_codes, except that a redirect received once the session has followed
\* its limit of redirects raises TooManyRedirects.
C10_LastResponseReturnedUnlessTooManyRedirects ==
    (Done /\ last.kind = "response")
      => \/ result = Returned(last)
         \/ /\ last.location /\ last.status \in REDIRECT_STATI
            /\ redirects = MaxRedirects
            /\ result = Raised("TooManyRedirects", None)

C10_Witness ==
    /\ Done /\ total_retries = 1 /\ attempts = 2 /\ last.status = 503
    /\ retry.total = 0 /\ result = Returned(last) /\ "error" \in prior

\* C11: the session of the with block covers every attempt and wait of the call and
\* is closed on every way out of the call (a returned response, exhausted retries,
\* an exception): a request is only ever in preparation, in flight or awaiting its
\* retry inside an open session, and once the call has ended no session is open
\* (the one created was closed; a call rejected for its bodies never created one).
C11_SessionCoversAttemptsAndIsClosed ==
    /\ pc \in {"prepare", "send", "inflight", "sleep"} => session = "open"
    /\ started > 0 => session \in {"open", "closed"}
    /\ Done => /\ session # "open"
               /\ session = "none" <=> result = Raised("ValueError", result.reason)

C11_Witness ==
    /\ Done /\ session = "closed" /\ attempts = 3 /\ sleeps = 1
    /\ result = Raised("ConnectionError", "ReadTimeoutError")

\* C12: a call given a malformed URL fails at once with a configuration error:
\* no request is handed to the transport, nothing is waited for, the retry
\* budget is left untouched, and the call can only end by raising MissingSchema
\* (or the ValueError of the body check, which comes first).
C12_MalformedUrlFailsImmediately ==
    url = "svc/v1"
      => /\ started = 0 /\ attempts = 0 /\ sleeps = 0 /\ last = NoOutcome
         /\ pc \notin {"send", "inflight", "sleep"}
         /\ retry.history = <<>>
         /\ Done => /\ result.kind = "raise"
                    /\ result.exc \in {"MissingSchema", "ValueError"}
                    /\ result.exc = "MissingSchema" <=> ~both_bodies_given(json_data, data)

C12_Witness ==
    /\ Done /\ url = "svc/v1" /\ total_retries = 2 /\ retry.total = 2
    /\ session = "closed" /\ result = Raised("MissingSchema", None)

\* C13: within one call at most one attempt is with the transport at any time and
\* attempts are made in index order: an attempt starts only when every earlier one
\* has been answered, it is answered before the next one starts, and a retry starts
\* only after Retry.sleep has returned from the whole wait owed for the failure
\* being retried.
InFlight == started - attempts

C13_OneAttemptAtATimeInOrder ==
    [][/\ InFlight \in {0, 1}
       /\ InFlight = 1 <=> pc = "inflight"
       /\ started' # started
            => /\ InFlight = 0 /\ started' = started + 1
               /\ pc # "sleep"
               /\ RetryNo >= 1 => last_wait = sleep_time(retry, last)
       /\ attempts' # attempts
            => /\ InFlight = 1 /\ attempts' = attempts + 1 /\ started' = started
       /\ pc = "sleep" /\ pc' # "sleep"
            => /\ started' = started
               /\ last_wait' = sleep_time(retry, last)]_vars

C13_Witness ==
    /\ pc = "inflight" /\ started = 3 /\ attempts = 2 /\ redirects = 0
    /\ backoff_factor = 1 /\ last_wait = 2 /\ sleeps = 1

\* C14: two calls that run concurrently are independent under every interleaving
\* of their steps. A step of the running call leaves the whole frame of the
\* suspended call as it was (its attempts, its waits, its result); a call that is
\* resumed continues from exactly the frame it was suspended with; and each call
\* keeps its own session and its own retry counter, which counts its own attempts
\* against its own total_retries.
OwnSessionAndCounter(c) ==
    /\ c.pc \in {"prepare", "send", "inflight", "sleep"} => c.session = "open"
    /\ c.pc = "done" => c.session # "open"
    /\ c.session # "none"
         => /\ c.retry.total + Len(c.retry.history) = c.total_retries
            /\ c.retry.backoff_factor = c.backoff_factor
            /\ c.retry.status_forcelist = c.retry_status_codes
    /\ c.pc \in {"send", "inflight", "sleep"}
         => c.attempts <= c.redirects * (c.total_retries + 1) + Len(c.retry.history)
    /\ c.attempts <= (c.redirects + 1) * (c.total_retries + 1)

C14_ConcurrentCallsIndependent ==
    [][/\ running' = running => peer' = peer
       /\ running' # running => (peer' = Frame /\ Frame' = peer)
       /\ OwnSessionAndCounter(Frame) /\ OwnSessionAndCounter(peer)]_vars

C14_Witness ==
    /\ running = 2 /\ pc = "sleep" /\ attempts = 1 /\ retry.total = 0
    /\ peer.pc = "inflight" /\ peer.started = 2 /\ peer.redirects = 1
    /\ peer.total_retries = 0 /\ peer.session = "open"

\* C15 as stated: two runs of the same call that end with the same final response
\* hand indistinguishable values to their callers, however many attempts each needed.
SameCallSameFinalResponse ==
    /\ running \in {1, 2} /\ Done /\ peer.pc = "done"
    /\ <<url, json_data, data, total_retries, backoff_factor, retry_status_codes>>
         = <<peer.url, peer.json_data, peer.data, peer.total_retries,
             peer.backoff_factor, peer.retry_status_codes>>
    /\ result.kind = "response" /\ peer.result.kind = "response"
    /\ last = peer.last

C15_ResultHidesAttempts ==
    SameCallSameFinalResponse => result = peer.result

\* C15 amended: two runs of the same call that end with the same final response
\* return the same status, but the returned Response carries the Retry history of
\* its request, one entry per retried attempt: the two values are equal exactly when
\* both final requests were retried equally often, and without redirects the value
\* returned tells the number of attempts the call made.
C15_ResultRevealsRetriesOnly ==
    SameCallSameFinalResponse
      => /\ result.status = peer.result.status
         /\ result = peer.result <=> RetryNo = Len(peer.retry.history)
         /\ redirects = 0 => Len(result.raw_retries) = attempts - 1
         /\ peer.redirects = 0 => Len(peer.result.raw_retries) = peer.attempts - 1

C15_Witness ==
    /\ SameCallSameFinalResponse /\ result.status = 200 /\ redirects = 0
    /\ peer.redirects = 0 /\ attempts = 1 /\ peer.attempts = 2
    /\ result # peer.result

\* C16: a call of configure_logging takes exactly one configuration action, chosen
\* by its argument alone: None applies KSERVE_LOG_CONFIG, a dict is applied as it
\* is, a path ending in .json is read as JSON and applied, a path ending in .yaml or
\* .yml is read as YAML and applied, and any other path goes to fileConfig with
\* disable_existing_loggers=False. A file its reader cannot read makes the call
\* raise with nothing configured.
JsonPaths == {<<"conf", ".", "json">>}
YamlPaths == {<<"conf", ".", "yaml">>, <<"conf", ".", "yml">>}

C17_NoneLeavesLoggingUnchanged ==
    [][(log_calls' # log_calls /\ log_config'.type = "NoneType")
         => logging' = logging]_vars

\* C18: configure_logging is idempotent: a call with the argument of the call
\* before it leaves the logging state, the action taken and the outcome as that
\* call left them.
C18_SecondCallSameState ==
    [][(log_calls >= 1 /\ log_calls' = log_calls + 1 /\ log_config' = log_config)
         => /\ logging' = logging
            /\ log_action' = log_action
            /\ log_raised' = log_raised]_vars

C18_Witness ==
    /\ log_calls = 2 /\ log_config = DictArg(UserConfig) /\ log_previous = log_config
    /\ logging["kserve"] = LoggerSettings("INFO", <<"console">>, TRUE, FALSE)
    /\ logging["kserve.trace"] = LoggerSettings("NOTSET", <<>>, TRUE, FALSE)
    /\ logging["storage.initializer"].disabled

\* C19 as stated, for a positive polling_interval: a call of check_model_status
\* that has ended either returned at the first poll whose status matched, or raised
\* RuntimeError after round(timeout_seconds / polling_interval) polls none of which
\* matched.
PollMatched(i) ==
    status_matches(observed[i], expected_status, expected_failure_message)

\* the whole number nearest to timeout_seconds / polling_interval, the even one of
\* the two when it lies half way
NearestEven ==
    CHOOSE n \in 0..(2 * MaxTimeout) :
        /\ (2 * n - 1) * polling_interval <= 2 * timeout_seconds
        /\ 2 * timeout_seconds <= (2 * n + 1) * polling_interval
        /\ 2 * timeout_seconds \in {(2 * n - 1) * polling_interval,
                                    (2 * n + 1) * polling_interval} => n % 2 = 0

C19_ReturnsAtFirstMatchElseRuntimeError ==
    (polling_interval > 0 /\ poll_pc = "done")
      => \/ /\ poll_result = "return"
            /\ polls >= 1 /\ PollMatched(polls)
            /\ \A i \in 1..(polls - 1) : ~PollMatched(i)
         \/ /\ poll_result = "RuntimeError"
            /\ polls = NearestEven
            /\ \A i \in 1..polls : ~PollMatched(i)

\* C19 amended: with a positive polling_interval, and as long as time.sleep and
\* kserve_client.get come back, check_model_status terminates. It polls at most
\* round(timeout_seconds / polling_interval) times (a half rounds to the even
\* number) and has slept polling_interval before each poll. It returns at the
\* first poll whose status matches, raises RuntimeError after the last poll when
\* none matched, and an exception of kserve_client.get ends the call at the poll
\* that raised it. With polling_interval 0 it raises ZeroDivisionError before any
\* poll or sleep.
PollSafety ==
    IF polling_interval = 0
    THEN /\ polls = 0 /\ poll_slept = 0
         /\ poll_pc = "done" => poll_result = "ZeroDivisionError"
    ELSE /\ polls <= NearestEven
         /\ poll_slept = polling_interval * (polls + IF poll_pc = "get" THEN 1 ELSE 0)
         /\ \A i \in 1..Len(observed) :
               PollMatched(i) => (i = Len(observed) /\ poll_result = "return")
         /\ poll_pc = "done" <=> poll_result # None
         /\ poll_result = "return"
               => (polls >= 1 /\ Len(observed) = polls /\ PollMatched(polls))
         /\ poll_result = "RuntimeError"
               => (polls = NearestEven /\ Len(observed) = polls)
         /\ poll_result = "raised by kserve_client.get"
               => (polls >= 1 /\ Len(observed) = polls - 1)
         /\ poll_result \in {None, "return", "RuntimeError",
                              "raised by kserve_client.get"}

C19_BoundedPollsThenReturnOrRaise ==
    []PollSafety /\ <>(poll_pc = "done")

C19_Witness ==
    /\ poll_pc = "done" /\ poll_result = "RuntimeError"
    /\ timeout_seconds = 3 /\ polling_interval = 2 /\ polls = 2 /\ poll_slept = 4
    /\ expected_failure_message = Message(ssl_error)
    /\ observed[2] = ModelStatus("BlockedByFailedLoad", <<"NoSuchBucket">>)

\* C20: managed_storage_config_key and managed_ca_bundle_key set their own key, and
\* nothing else, in the secret and the configmap when they are entered, and remove
\* that key, and nothing else, whenever the with body is left, by its end or by an
\* exception: every other key keeps its presence and its value through each step,
\* the object the manager is not for is not touched, and once the with statements
\* are left neither key is there while the exception of the body is still on its
\* way out.
OthersKept(before, after, key) ==
    \A k \in (DOMAIN before \cup DOMAIN after) \ {key} :
        k \in DOMAIN before /\ k \in DOMAIN after /\ after[k] = before[k]
OwnStorageKey == storage_key_of(test_name)
OwnDataKey == data_key_of(test_name)

C20_OnlyOwnKeyAddedAndRemoved ==
    [][/\ OthersKept(secret_data, secret_data', OwnStorageKey)
       /\ OthersKept(configmap_data, configmap_data', OwnDataKey)
       /\ key_pc' = "ca_bundle_key"
            => /\ OwnDataKey \in DOMAIN configmap_data'
               /\ configmap_data'[OwnDataKey] = RootCrt
               /\ secret_data' = secret_data
       /\ (key_pc' = "body" /\ key_pc # "body")
            => /\ OwnStorageKey \in DOMAIN secret_data'
               /\ b64decode(secret_data'[OwnStorageKey]).json
                    = storage_config_of(test_name, test_phase)
               /\ configmap_data' = configmap_data
       /\ key_pc \in {"body", "isvc_body", "isvc_exit", "isvc_wait"}
            => (secret_data' = secret_data /\ configmap_data' = configmap_data)
       /\ key_pc = "storage_config_key_exit"
            => /\ OwnStorageKey \notin DOMAIN secret_data'
               /\ configmap_data' = configmap_data
               /\ in_flight' = in_flight
       /\ key_pc = "ca_bundle_key_exit"
            => /\ OwnDataKey \notin DOMAIN configmap_data'
               /\ secret_data' = secret_data
               /\ in_flight' = in_flight
       /\ key_pc' = "done"
            => /\ OwnStorageKey \notin DOMAIN secret_data'
               /\ uses_ca_bundle_key(test_name, test_phase)
                    => OwnDataKey \notin DOMAIN configmap_data']_vars

C20_Witness ==
    /\ key_pc = "done" /\ in_flight = "RuntimeError"
    /\ test_name = "global" /\ test_phase = "pass"
    /\ secret_data = [k \in {OtherStorageKey} |-> OldValue]
    /\ configmap_data = [k \in {"odh-ca-bundle.crt"} |-> OldCert]

\* C21 as stated: once the body of with managed_isvc has been left, by its end or
\* by an exception, the InferenceService that managed_isvc created has been deleted
\* and is gone.
C21_IsvcDeletedOnEveryExit ==
    key_pc \in {"storage_config_key_exit", "ca_bundle_key_exit", "done"}
      => isvc = "absent"

\* C22 as stated: the with statements nest last in, first out. The CA bundle key is
\* there when the storage-config key is added, both are there when the
\* InferenceService is created; on the way out the InferenceService is gone when
\* the storage-config key is removed, and the storage-config key is gone when the
\* CA bundle key is removed.
HasCaKey == OwnDataKey \in DOMAIN configmap_data
HasStorageKey == OwnStorageKey \in DOMAIN secret_data

C22_LastInFirstOut ==
    [][/\ (key_pc' = "body" /\ uses_ca_bundle_key(test_name, test_phase)) => HasCaKey
       /\ (isvc = "absent" /\ isvc' = "present")
            => /\ HasStorageKey
               /\ uses_ca_bundle_key(test_name, test_phase) => HasCaKey
       /\ (HasStorageKey /\ ~HasStorageKey') => isvc = "absent"
       /\ (HasCaKey /\ ~HasCaKey') => (~HasStorageKey /\ isvc = "absent")]_vars

\* C23: the fixture tolerates a concurrent worker. A create answered 409 is
\* swallowed: the configmap stays as the other worker made it and the fixture
\* yields. A delete answered 404 is swallowed: teardown is over without an
\* exception. An ApiException with any other status leaves the fixture, at once
\* and with that status.
C23_SwallowsOnly409And404 ==
    [][\A w \in Workers :
         LET status == w_status'[w][Len(w_status'[w])]
         IN  /\ (w_pc[w] = "setup" /\ w_pc'[w] # "setup")
                  => /\ status \in {201, 409}
                          => (w_pc'[w] = "yielded" /\ w_raised'[w] = w_raised[w])
                     /\ status = 409 => (cm.exists /\ cm' = cm)
                     /\ status \notin {201, 409}
                          => (w_pc'[w] = "done" /\ w_raised'[w].fixture = status)
             /\ (w_pc[w] = "teardown" /\ w_pc'[w] # "teardown")
                  => /\ status = 404
                          => (w_pc'[w] = "done" /\ w_raised'[w] = w_raised[w] /\ cm' = cm)
                     /\ status = 200
                          => (w_pc'[w] = "wait" /\ w_raised'[w] = w_raised[w])
                     /\ status \notin {200, 404}
                          => (w_pc'[w] = "done" /\ w_raised'[w].fixture = status)]_vars

C23_Witness ==
    /\ w_pc = [w \in Workers |-> "done"]
    /\ w_status[1] = <<201, 200, 200, 200>>
    /\ w_status[2] = <<409, 404, 404>>
    /\ w_raised[2].fixture = 0

\* C24 as stated: whenever a worker executes the add or the remove patch of
\* managed_ca_bundle_key, the configmap exists.
C24_ConfigMapExistsAtEveryPatch ==
    [][\A w \in Workers :
         (w_pc[w] \in {"yielded", "in_test"} /\ w_pc'[w] # w_pc[w]) => cm.exists]_vars

\* the latest call and how it ended
LastCall == api_calls[Len(api_calls)]
CreateCalls == {"create_namespaced_service_account", "create_namespaced_role",
                "create_namespaced_role_binding"}
DeleteCalls == {"delete_namespaced_role_binding", "delete_namespaced_role",
                "delete_namespaced_service_account"}
IsDeleteCall(c) == c.call \in DeleteCalls
Deletions == SelectSeq(api_calls, IsDeleteCall)
Called(name) == \E i \in 1..Len(api_calls) : api_calls[i].call = name

\* C25: create_service_account_with_get_access with resources that exist. A
\* create answered 409 does not raise: an existing ServiceAccount stays as it
\* is, an existing Role and an existing RoleBinding are replaced and hold the
\* desired definition once the replace returns, and the token is requested only
\* with all three in place. An ApiException with another status on a create
\* propagates at once: no resource changes and the next step is the handler of
\* the caller.
C25_ExistingResourcesTolerated ==
    [][/\ auth_pc \in {"create_sa", "create_role", "create_binding"}
            => /\ LastCall'.call \in CreateCalls
               /\ LastCall'.ended = ApiException(409)
                    => /\ auth_in_flight' = NoExc
                       /\ cluster' = cluster
                       /\ auth_pc' = CASE auth_pc = "create_sa" -> "create_role"
                                       [] auth_pc = "create_role" -> "replace_role"
                                       [] auth_pc = "create_binding" -> "replace_binding"
               /\ LastCall'.ended \notin {NoExc, ApiException(409)}
                    => /\ auth_in_flight' = LastCall'.ended
                       /\ cluster' = cluster
                       /\ auth_pc' = "except"
       /\ (auth_pc = "replace_role" /\ LastCall'.ended = NoExc)
            => (cluster'.role = "desired" /\ auth_pc' = "create_binding")
       /\ (auth_pc = "replace_binding" /\ LastCall'.ended = NoExc)
            => (cluster'.role_binding = "desired" /\ auth_pc' = "token")
       /\ auth_pc' = "token"
            => /\ cluster'.sa # "absent"
               /\ cluster'.role = "desired"
               /\ cluster'.role_binding = "desired"
       /\ auth_pc = "token"
            => LastCall'.call = "create_namespaced_service_account_token"
       /\ cluster.sa = "other" => cluster'.sa = "other" \/ auth_pc = "delete_sa"]_vars

C25_Witness ==
    /\ token = "token"
    /\ Len(api_calls) = 7
    /\ api_calls[2] = Call("create_namespaced_service_account", ApiException(409))
    /\ api_calls[3] = Call("create_namespaced_role", ApiException(409))
    /\ api_calls[5] = Call("create_namespaced_role_binding", ApiException(409))
    /\ cluster = [sa |-> "other", role |-> "desired", role_binding |-> "desired"]

\* C26: cleanup_service_account deletes the RoleBinding, then the Role, then
\* the ServiceAccount. After a deletion that returned or raised ApiException the
\* next deletion is attempted, so a cleanup that raised nothing else attempts all
\* three; what leaves the function is never an ApiException.
C26_DeletionsInOrderApiExceptionSwallowed ==
    /\ \A i \in 1..Len(Deletions) :
         Deletions[i].call = <<"delete_namespaced_role_binding", "delete_namespaced_role",
                               "delete_namespaced_service_account">>[i]
    /\ \A i \in 1..Len(Deletions) :
         (Deletions[i].ended.type = "ApiException" /\ i < 3 /\ auth_pc = "done")
            => Len(Deletions) > i
    /\ (auth_pc = "cleanup_failed" /\ IsDeleteCall(LastCall))
            => LastCall.ended.type \notin {"none", "ApiException"}
    /\ (auth_pc \in {"delete_role", "delete_sa"} \/ (auth_pc = "decide" /\ uses_service_account(auth_test)))
            => /\ Deletions # <<>>
               /\ IsDeleteCall(LastCall)
               /\ LastCall.ended.type \in {"none", "ApiException"}
    /\ (auth_pc = "decide" /\ uses_service_account(auth_test)) => Len(Deletions) = 3

C26_Witness ==
    /\ auth_pc = "decide"
    /\ Len(Deletions) = 3
    /\ Deletions[1].ended = ApiException(Forbidden)
    /\ Deletions[2].ended = ApiException(404)
    /\ Deletions[3].ended = NoExc

BodyCalls == CreateCalls \cup {"create_llmisvc", "replace_namespaced_role",
                               "replace_namespaced_role_binding",
                               "create_namespaced_service_account_token", "requests.post"}
\* the test body failed: an exception left the try block
BodyFailed == auth_in_flight # NoExc

\* C27 as stated: when the test is over, delete_llmisvc was called if and only
\* if neither SKIP_RESOURCE_DELETION is true nor SKIP_DELETION_ON_FAILURE is
\* true with the test failed, and the outcome is the one of the test body.
C27_DeletedUnlessSkipped ==
    auth_pc = "done"
        => /\ Called("delete_llmisvc")
                <=> ~(skip_all_deletion \/ (skip_deletion_on_failure /\ BodyFailed))
           /\ auth_outcome = IF BodyFailed THEN auth_in_flight.type ELSE "passed"

\* C28: when the test body fails, _collect_diagnostics is called before
\* cleanup_service_account and before delete_llmisvc, and the exception of the
\* body leaves the test only after the cleanup.
CleanupCalls == DeleteCalls \cup {"delete_llmisvc", "logger.warning"}
C28_DiagnosticsBeforeCleanup ==
    BodyFailed
        => /\ \A i \in 1..Len(api_calls) :
                api_calls[i].call \in CleanupCalls
                    => \E k \in 1..(i - 1) : api_calls[k].call = "_collect_diagnostics"
           /\ auth_pc \in {"delete_binding", "delete_role", "delete_sa", "decide",
                           "cleanup_failed", "exit", "done"}
                => Called("_collect_diagnostics")
           /\ auth_pc \in {"except", "finally", "delete_binding", "delete_role", "delete_sa",
                           "decide", "cleanup_failed", "exit"}
                => (auth_outcome = "running" /\ auth_in_flight # NoExc)
           /\ auth_pc = "done"
                => /\ auth_outcome = auth_in_flight.type
                   /\ \E i \in 1..Len(api_calls) :
                        /\ api_calls[i].call \in BodyCalls
                        /\ api_calls[i].ended = auth_in_flight

C28_Witness ==
    /\ auth_pc = "done"
    /\ auth_outcome = "AssertionError"
    /\ Len(api_calls) = 11
    /\ api_calls[6] = Call("requests.post", AssertionError)
    /\ api_calls[7] = Call("_collect_diagnostics", NoExc)
    /\ api_calls[8].call = "delete_namespaced_role_binding"
    /\ api_calls[11] = Call("delete_llmisvc", NoExc)

====
